---- MODULE Spec2Model ----
(***************************************************************************)
(* A model of pixel-page-count (src/src/main.rs): the startup code of main *)
(* that detects and migrates the legacy pageviews table, and the two axum  *)
(* handlers count_page_view and export that share one SQLite connection    *)
(* behind a std::sync::Mutex.                                              *)
(***************************************************************************)
EXTENDS Integers, Sequences, FiniteSets, TLC

\* ------------------------------------------------------------------ bounds

\* Most rows the legacy table holds when the program first meets the store.
MaxLegacy == 2

\* Requests made to the service over the life of the store.
MaxRequests == 2

\* ------------------------------------------------------- values and inputs

\* Option<String>: None, or Some(s).
None == <<>>
Some(s) == <<s>>

\* The query parameters /counter.gif is called with: both absent, both
\* empty, both present.
CountParams ==
    { [domain |-> None, page |-> None],
      [domain |-> Some(""), page |-> Some("")],
      [domain |-> Some("d1"), page |-> Some("/a")] }

\* The query parameters /stats.json is called with: no domain, one that is
\* in use, or one that differs from it only in case. (export does not read page.)
ExportParams ==
    { [domain |-> None, page |-> None],
      [domain |-> Some("d1"), page |-> None],
      [domain |-> Some("D1"), page |-> None] }

\* Instants (seconds since the epoch) the UTC clock passes through:
\* 2024-12-31 23:59:59 and 2025-01-01 00:00:00.
Instants == <<1735689599, 1735689600>>

\* The events a legacy table may hold, all for one page: two on 2024-12-31,
\* at its first and its last second, and one a second later, on 2025-01-01.
LegacyEvents ==
    << [ts |-> 1735603200, domain |-> "d1", page |-> "/a"],
       [ts |-> 1735689599, domain |-> "d1", page |-> "/a"],
       [ts |-> 1735689600, domain |-> "d1", page |-> "/a"] >>

\* The tasks that run handlers at the same time: a handler has no await
\* point, so it occupies a worker thread of the runtime from start to end.
Tasks == {1, 2}

\* --------------------------------------------------------------- the store

TableName == "pageviews"
OldTableName == "pageviews_old"

\* The column definitions of the two shapes of the table, as the catalog
\* (sqlite_master.sql) keeps them.
LegacyMarker == "ts INTEGER"
LegacySql == <<LegacyMarker, "domain TEXT", "page TEXT">>
AggregatedSql ==
    << "domain TEXT NOT NULL", "page TEXT NOT NULL", "date TEXT NOT NULL",
       "view_count INTEGER NOT NULL DEFAULT 1",
       "PRIMARY KEY (domain, page, date)" >>

\* str.contains: the stored definition text holds the marker.
Contains(sql, marker) == \E i \in 1..Len(sql) : sql[i] = marker

\* ------------------------------------------------------------------- dates

SecondsPerDay == 86400

DigitChar == <<"0", "1", "2", "3", "4", "5", "6", "7", "8", "9">>

RECURSIVE Digits(_)
Digits(n) ==
    IF n < 10 THEN <<DigitChar[n + 1]>>
    ELSE Digits(n \div 10) \o <<DigitChar[(n % 10) + 1]>>

\* format!("{:0w}", n): the decimal digits, zero-padded on the left to width w.
ZeroPad(n, w) ==
    LET ds == Digits(n)
    IN  IF Len(ds) >= w THEN ds ELSE [i \in 1..(w - Len(ds)) |-> "0"] \o ds

\* The proleptic Gregorian date of day number n (days since 1970-01-01).
CivilFromDays(n) ==
    LET z == n + 719468
        era == z \div 146097
        doe == z - era * 146097
        yoe == (doe - doe \div 1460 + doe \div 36524 - doe \div 146096) \div 365
        doy == doe - (365 * yoe + yoe \div 4 - yoe \div 100)
        mp == (5 * doy + 2) \div 153
        d == doy - (153 * mp + 2) \div 5 + 1
        m == IF mp < 10 THEN mp + 3 ELSE mp - 9
        y == yoe + era * 400 + (IF m <= 2 THEN 1 ELSE 0)
    IN  [year |-> y, month |-> m, day |-> d]

\* The date of instant t on a clock one hour behind UTC (now_local at UTC-1).
LocalDate(t) == CivilFromDays((t - 3600) \div SecondsPerDay)

\* OffsetDateTime::now_utc().date() at instant t.
UtcDate(t) == CivilFromDays(t \div SecondsPerDay)

\* format!("{:04}-{:02}-{:02}", year, month, day), as a sequence of characters.
FormatDate(date) ==
    ZeroPad(date.year, 4) \o <<"-">> \o ZeroPad(date.month, 2) \o <<"-">>
        \o ZeroPad(date.day, 2)

\* SQLite's date(ts, 'unixepoch'): the YYYY-MM-DD text of the UTC day of ts.
SqliteDate(ts) ==
    LET date == CivilFromDays(ts \div SecondsPerDay)
    IN  ZeroPad(date.year, 4) \o <<"-">> \o ZeroPad(date.month, 2) \o <<"-">>
            \o ZeroPad(date.day, 2)

\* ------------------------------------------------------------------- state

VARIABLES
    tables,           \* the store: table name -> [sql, rows], for the tables that exist
    main_pc,          \* where main is
    needs_migration,  \* main's local of that name
    panic,            \* why main panicked: "io" (the store or the socket failed),
                      \* "sql" (SQLite refused the statement), or "none"
    now,              \* index into Instants of the current instant
    db_mutex,         \* the task holding state.db's lock, or 0
    poisoned,         \* state.db's mutex is poisoned
    handler,          \* task -> the request it serves and where it is
    requests,         \* how many requests have been made to the service so far
    legacy,           \* history: the legacy rows the store held at first
    settled,          \* history: an earlier start created, found or migrated
                      \* the aggregated table and went on to bind
    served,           \* history: the rows of pageviews when this process began serving
    applied           \* history: key -> the count_page_view calls of this process
                      \* that returned after their statement succeeded

vars ==
    << tables, main_pc, needs_migration, panic, now, db_mutex, poisoned, handler,
       requests, legacy, settled, served, applied >>

\* A task that has not been given a request. result is the Result of the
\* handler's statement ("ok", "err", or "none" before it has run), response the
\* value the handler is returning. A task that has ended keeps as history
\* the result, the content type it sent ("none" if it panicked) and overlap:
\* whether another count_page_view call for the same key was running during
\* its own.
Idle ==
    [ kind |-> "none", pc |-> "idle", params |-> [domain |-> None, page |-> None],
      domain |-> "", page |-> "", date_str |-> <<>>, result |-> "none",
      response |-> <<>>, sent |-> "none", overlap |-> FALSE ]

\* params.domain.unwrap_or_else(|| "unknown".into())
DomainOrDefault(domain) == IF domain = None THEN "unknown" ELSE domain[1]

\* params.page.unwrap_or_else(|| "/unknown".into())
PageOrDefault(page) == IF page = None THEN "/unknown" ELSE page[1]

\* The keys (domain, page, date) the requests can write.
RequestKeys ==
    { <<DomainOrDefault(p.domain), PageOrDefault(p.page), FormatDate(UtcDate(Instants[i]))>>
      : p \in CountParams, i \in 1..Len(Instants) }

\* The legacy tables Init draws from: up to MaxLegacy rows, rowids in order.
LegacyTables ==
    UNION { { { [rowid |-> i, ts |-> LegacyEvents[f[i]].ts,
                 domain |-> LegacyEvents[f[i]].domain,
                 page |-> LegacyEvents[f[i]].page] : i \in 1..n }
              : f \in { g \in [1..n -> 1..Len(LegacyEvents)] :
                          \A i \in 1..n, j \in 1..n : i < j => g[i] <= g[j] } }
            : n \in 0..MaxLegacy }

\* A new store, or one the previous version of the program left: a legacy
\* event table called pageviews.
Init ==
    /\ \E fresh \in BOOLEAN, old \in LegacyTables :
          /\ tables = IF fresh THEN << >>
                      ELSE (TableName :> [sql |-> LegacySql, rows |-> old])
          /\ legacy = IF fresh THEN {} ELSE old
    /\ main_pc = "open"
    /\ needs_migration = FALSE
    /\ panic = "none"
    /\ now = 1
    /\ db_mutex = 0
    /\ poisoned = FALSE
    /\ handler = [t \in Tasks |-> Idle]
    /\ requests = 0
    /\ settled = FALSE
    /\ served = {}
    /\ applied = [k \in RequestKeys |-> 0]

\* ------------------------------------------------------------ SQL statements

Exists(name) == name \in DOMAIN tables

\* The store without table name.
Without(name) == [n \in DOMAIN tables \ {name} |-> tables[n]]

\* The store with table name set to t.
With(store, name, t) == [n \in DOMAIN store \cup {name} |-> IF n = name THEN t ELSE store[n]]

\* The primary key (domain, page, date) of an aggregated row.
Key(r) == <<r.domain, r.page, r.date>>

\* GroupByDay with COUNT(*) forgotten: every group gets the column default, 1.
GroupByDayUncounted(events) ==
    { [domain |-> e.domain, page |-> e.page, date |-> SqliteDate(e.ts), view_count |-> 1]
      : e \in events }

\* SELECT domain, page, date(ts, 'unixepoch') as date, COUNT(*) as view_count
\* FROM pageviews_old GROUP BY domain, page, date(ts, 'unixepoch')
GroupByDay(events) ==
    LET group(e) == <<e.domain, e.page, SqliteDate(e.ts)>>
    IN  { [domain |-> k[1], page |-> k[2], date |-> k[3],
           view_count |-> Cardinality({e \in events : group(e) = k})]
          : k \in {group(e) : e \in events} }

\* PRIMARY KEY (domain, page, date): no two rows share a key.
PrimaryKeyHolds(rows) == \A r1 \in rows, r2 \in rows : Key(r1) = Key(r2) => r1 = r2

\* Upsert as INSERT OR REPLACE: a conflicting row is replaced by the new one.
UpsertReplace(rows, domain, page, date) ==
    {r \in rows : Key(r) # <<domain, page, date>>}
        \cup {[domain |-> domain, page |-> page, date |-> date, view_count |-> 1]}

\* Upsert as INSERT OR IGNORE: a conflicting row is left as it is.
UpsertIgnore(rows, domain, page, date) ==
    IF \E r \in rows : Key(r) = <<domain, page, date>> THEN rows
    ELSE rows \cup {[domain |-> domain, page |-> page, date |-> date, view_count |-> 1]}

\* Upsert with the new row's count off by one: VALUES (?, ?, ?, 0).
UpsertFromZero(rows, domain, page, date) ==
    LET hit == {r \in rows : Key(r) = <<domain, page, date>>}
    IN  IF hit = {}
        THEN rows \cup {[domain |-> domain, page |-> page, date |-> date, view_count |-> 0]}
        ELSE (rows \ hit) \cup {[r EXCEPT !.view_count = r.view_count + 1] : r \in hit}

\* INSERT INTO pageviews (...) VALUES (?, ?, ?, 1)
\* ON CONFLICT (domain, page, date) DO UPDATE SET view_count = view_count + 1
Upsert(rows, domain, page, date) ==
    LET hit == {r \in rows : Key(r) = <<domain, page, date>>}
    IN  IF hit = {}
        THEN rows \cup {[domain |-> domain, page |-> page, date |-> date, view_count |-> 1]}
        ELSE (rows \ hit) \cup {[r EXCEPT !.view_count = r.view_count + 1] : r \in hit}

\* -------------------------------------------------------------------- main

\* What no step of main changes.
ServiceUnchanged == UNCHANGED <<now, db_mutex, poisoned, handler, requests, legacy, applied>>

\* .unwrap() on an Err: main panics and the process ends.
Panic(why) ==
    /\ main_pc' = "crashed"
    /\ panic' = why
    /\ UNCHANGED <<tables, needs_migration, settled, served>>
    /\ ServiceUnchanged

\* Connection::open(db_path).unwrap()
Open ==
    /\ main_pc = "open"
    /\ \E ok \in BOOLEAN :
          IF ok
          THEN /\ main_pc' = "detect"
               /\ UNCHANGED <<tables, needs_migration, panic, settled, served>>
               /\ ServiceUnchanged
          ELSE Panic("io")

\* needs_migration: the first query finds a table called pageviews (an error
\* counts as none), and its sql (the empty string on an error) holds the marker.
Detect ==
    /\ main_pc = "detect"
    /\ \E ok1 \in BOOLEAN, ok2 \in BOOLEAN :
          LET found == ok1 /\ Exists(TableName)
              sql == IF ok2 /\ Exists(TableName) THEN tables[TableName].sql ELSE <<>>
              nm == found /\ Contains(sql, LegacyMarker)
          IN  /\ needs_migration' = nm
              /\ main_pc' = IF nm THEN "rename" ELSE "create_if_not_exists"
    /\ UNCHANGED <<tables, panic, settled, served>>
    /\ ServiceUnchanged

\* ALTER TABLE pageviews RENAME TO pageviews_old
Rename ==
    /\ main_pc = "rename"
    /\ \E ok \in BOOLEAN :
          IF ~ok THEN Panic("io")
          ELSE IF ~Exists(TableName) \/ Exists(OldTableName) THEN Panic("sql")
          ELSE /\ tables' = With(Without(TableName), OldTableName, tables[TableName])
               /\ main_pc' = "create"
               /\ UNCHANGED <<needs_migration, panic, settled, served>>
               /\ ServiceUnchanged

\* CREATE TABLE pageviews (...)
Create ==
    /\ main_pc = "create"
    /\ \E ok \in BOOLEAN :
          IF ~ok THEN Panic("io")
          ELSE IF Exists(TableName) THEN Panic("sql")
          ELSE /\ tables' = With(tables, TableName, [sql |-> AggregatedSql, rows |-> {}])
               /\ main_pc' = "populate"
               /\ UNCHANGED <<needs_migration, panic, settled, served>>
               /\ ServiceUnchanged

\* INSERT INTO pageviews (...) SELECT ... FROM pageviews_old GROUP BY ...
Populate ==
    /\ main_pc = "populate"
    /\ \E ok \in BOOLEAN :
          LET new == IF Exists(TableName) /\ Exists(OldTableName)
                     THEN tables[TableName].rows \cup GroupByDay(tables[OldTableName].rows)
                     ELSE {}
          IN  IF ~ok THEN Panic("io")
              ELSE IF ~Exists(TableName) \/ ~Exists(OldTableName) \/ ~PrimaryKeyHolds(new)
              THEN Panic("sql")
              ELSE /\ tables' = With(tables, TableName, [tables[TableName] EXCEPT !.rows = new])
                   /\ main_pc' = "drop"
                   /\ UNCHANGED <<needs_migration, panic, settled, served>>
                   /\ ServiceUnchanged

\* DROP TABLE pageviews_old
Drop ==
    /\ main_pc = "drop"
    /\ \E ok \in BOOLEAN :
          IF ~ok THEN Panic("io")
          ELSE IF ~Exists(OldTableName) THEN Panic("sql")
          ELSE /\ tables' = Without(OldTableName)
               /\ main_pc' = "bind"
               /\ UNCHANGED <<needs_migration, panic, settled, served>>
               /\ ServiceUnchanged

\* CreateIfNotExists as DROP TABLE IF EXISTS and CREATE TABLE: the table is
\* made anew at every start.
CreateAnew ==
    /\ main_pc = "create_if_not_exists"
    /\ \E ok \in BOOLEAN :
          IF ~ok THEN Panic("io")
          ELSE /\ tables' = With(tables, TableName, [sql |-> AggregatedSql, rows |-> {}])
               /\ main_pc' = "bind"
               /\ UNCHANGED <<needs_migration, panic, settled, served>>
               /\ ServiceUnchanged

\* CREATE TABLE IF NOT EXISTS pageviews (...)
CreateIfNotExists ==
    /\ main_pc = "create_if_not_exists"
    /\ \E ok \in BOOLEAN :
          IF ~ok THEN Panic("io")
          ELSE /\ tables' = IF Exists(TableName) THEN tables
                            ELSE With(tables, TableName, [sql |-> AggregatedSql, rows |-> {}])
               /\ main_pc' = "bind"
               /\ UNCHANGED <<needs_migration, panic, settled, served>>
               /\ ServiceUnchanged

\* The table called pageviews has the aggregated columns, so the handlers'
\* statements compile against it.
Aggregated == Exists(TableName) /\ ~Contains(tables[TableName].sql, LegacyMarker)

\* AppState { db: Arc::new(Mutex::new(conn)) }, the router, and
\* TcpListener::bind(&addr).await.unwrap(); then axum::serve runs the handlers.
Bind ==
    /\ main_pc = "bind"
    /\ \E ok \in BOOLEAN :
          IF ~ok THEN Panic("io")
          ELSE /\ main_pc' = "serving"
               /\ settled' = (settled \/ Aggregated)
               /\ served' = IF Aggregated THEN tables[TableName].rows ELSE {}
               /\ UNCHANGED <<tables, needs_migration, panic>>
               /\ ServiceUnchanged

\* The process, ended by a panic of main or killed while serving, is started
\* again on the same store, with no task running.
Restart ==
    /\ main_pc \in {"crashed", "serving"}
    /\ main_pc' = "open"
    /\ needs_migration' = FALSE
    /\ panic' = "none"
    /\ db_mutex' = 0
    /\ poisoned' = FALSE
    /\ handler' = [t \in Tasks |-> Idle]
    /\ served' = {}
    /\ applied' = [k \in RequestKeys |-> 0]
    /\ UNCHANGED <<tables, now, requests, legacy, settled>>

\* The UTC clock passes to the next instant.
Tick ==
    /\ now < Len(Instants)
    /\ now' = now + 1
    /\ UNCHANGED <<tables, main_pc, needs_migration, panic, db_mutex, poisoned, handler,
                   requests, legacy, settled, served, applied>>

\* ---------------------------------------------------------------- handlers

\* What no step of a handler changes.
MainUnchanged == UNCHANGED <<main_pc, needs_migration, panic, now, legacy, settled, served>>

InFlight(t) == handler[t].pc \in {"lock", "reply"}

\* A task that has ended, by returning (sent is the content type of its
\* response) or by a panic (sent is "none"), keeps only its history.
Done(h, result, sent) ==
    [Idle EXCEPT !.kind = h.kind, !.pc = "done", !.result = result, !.sent = sent,
                 !.overlap = h.overlap]

\* Free with the listener bound and served before the schema steps of main.
FreeBeforeSchema(t) ==
    /\ main_pc \in {"detect", "rename", "create", "populate", "drop",
                    "create_if_not_exists", "bind", "serving"}
    /\ ~InFlight(t)
    /\ \A u \in Tasks : u < t => InFlight(u)
    /\ requests < MaxRequests
    /\ requests' = requests + 1

\* axum::serve hands a request to a task that is not running a handler (the
\* first such task).
Free(t) ==
    /\ main_pc = "serving"
    /\ ~InFlight(t)
    /\ \A u \in Tasks : u < t => InFlight(u)
    /\ requests < MaxRequests
    /\ requests' = requests + 1

\* count_page_view up to the lock: the parameters and the date string.
CountBegin(t) ==
    /\ Free(t)
    /\ \E params \in CountParams :
          LET domain == DomainOrDefault(params.domain)
              page == PageOrDefault(params.page)
              date_str == FormatDate(UtcDate(Instants[now]))
              same(u) == /\ u # t
                         /\ handler[u].kind = "count"
                         /\ InFlight(u)
                         /\ <<handler[u].domain, handler[u].page, handler[u].date_str>>
                               = <<domain, page, date_str>>
          IN  handler' =
                [u \in Tasks |->
                    IF u = t
                    THEN [Idle EXCEPT !.kind = "count", !.pc = "lock", !.params = params,
                                      !.domain = domain, !.page = page,
                                      !.date_str = date_str,
                                      !.overlap = \E v \in Tasks : same(v)]
                    ELSE IF same(u) THEN [handler[u] EXCEPT !.overlap = TRUE]
                    ELSE handler[u]]
    /\ UNCHANGED <<tables, db_mutex, poisoned, applied>>
    /\ MainUnchanged

\* export up to the lock: the query parameters.
ExportBegin(t) ==
    /\ Free(t)
    /\ \E params \in ExportParams :
          handler' = [handler EXCEPT ![t] =
                        [Idle EXCEPT !.kind = "export", !.pc = "lock", !.params = params]]
    /\ UNCHANGED <<tables, db_mutex, poisoned, applied>>
    /\ MainUnchanged

\* ([("Content-Type", "image/gif")], PIXEL_GIF)
\* A mutex that lets every lock() through at once.
NeverLocked == TRUE

\* lock() goes through only while no task holds the guard.
Unlocked == db_mutex = 0

PixelResponse == [content_type |-> "image/gif", body |-> "PIXEL_GIF"]

\* What count_page_view does with a failed statement, had it unwrapped the
\* Result: it panics with the guard held, which poisons the mutex.
CountUnwrapErr(t) ==
    /\ tables' = tables
    /\ handler' = [handler EXCEPT ![t] = Done(@, "err", "none")]
    /\ poisoned' = TRUE
    /\ UNCHANGED db_mutex

\* let _ = ...: the Err of the statement is dropped; the store is as it was,
\* the guard is still held and the pixel response is built.
CountDropErr(t) ==
    /\ tables' = tables
    /\ handler' = [handler EXCEPT ![t].pc = "reply", ![t].result = "err",
                                  ![t].response = PixelResponse]
    /\ db_mutex' = t
    /\ UNCHANGED poisoned

\* state.db.lock().unwrap() and let _ = db.execute(upsert), taken as one
\* step since nothing else runs against the store in between. lock() waits
\* while another task holds the guard; on a poisoned mutex it is an Err,
\* unwrap panics and the task ends unanswered. The statement runs against
\* the aggregated table, or fails; then the pixel response is built.
CountExecute(t) ==
    /\ handler[t].kind = "count"
    /\ handler[t].pc = "lock"
    /\ Unlocked
    /\ IF poisoned
       THEN /\ handler' = [handler EXCEPT ![t] = Done(@, "none", "none")]
            /\ UNCHANGED <<tables, db_mutex, poisoned>>
       ELSE \E ok \in BOOLEAN :
              IF ok /\ Aggregated
              THEN /\ tables' = With(tables, TableName,
                                     [tables[TableName] EXCEPT !.rows =
                                         Upsert(@, handler[t].domain, handler[t].page,
                                                handler[t].date_str)])
                   /\ handler' = [handler EXCEPT ![t].pc = "reply", ![t].result = "ok",
                                                 ![t].response = PixelResponse]
                   /\ db_mutex' = t
                   /\ UNCHANGED poisoned
              ELSE CountDropErr(t)
    /\ UNCHANGED <<requests, applied>>
    /\ MainUnchanged

\* count_page_view returns: the guard db is dropped and the response is sent.
CountReturn(t) ==
    /\ handler[t].kind = "count"
    /\ handler[t].pc = "reply"
    /\ handler' = [handler EXCEPT ![t] = Done(@, @.result, @.response.content_type)]
    /\ applied' = IF handler[t].result = "ok"
                  THEN [applied EXCEPT ![<<handler[t].domain, handler[t].page,
                                           handler[t].date_str>>] = @ + 1]
                  ELSE applied
    /\ db_mutex' = 0
    /\ UNCHANGED <<tables, poisoned, requests>>
    /\ MainUnchanged

\* The byte of a character of a date string.
CharCode(c) ==
    CASE c = "-" -> 45
      [] c = "0" -> 48 [] c = "1" -> 49 [] c = "2" -> 50 [] c = "3" -> 51
      [] c = "4" -> 52 [] c = "5" -> 53 [] c = "6" -> 54 [] c = "7" -> 55
      [] c = "8" -> 56 [] c = "9" -> 57

\* a < b as SQLite compares TEXT (BINARY collation: byte by byte, then by length).
RECURSIVE TextLess(_, _)
TextLess(a, b) ==
    IF b = <<>> THEN FALSE
    ELSE IF a = <<>> THEN TRUE
    ELSE IF CharCode(Head(a)) # CharCode(Head(b)) THEN CharCode(Head(a)) < CharCode(Head(b))
    ELSE TextLess(Tail(a), Tail(b))

\* Select with the domain column compared without regard to case (COLLATE NOCASE).
SelectNoCase(rows, domain) ==
    LET Fold(x) == IF x = "D1" THEN "d1" ELSE x
    IN  IF domain = None THEN rows ELSE {r \in rows : Fold(r.domain) = Fold(domain[1])}

\* SELECT domain, page, date, view_count FROM pageviews [WHERE domain = ?]
Select(rows, domain) == IF domain = None THEN rows ELSE {r \in rows : r.domain = domain[1]}

\* The rows with no ORDER BY clause: every listing of them.
RECURSIVE Unordered(_)
Unordered(rows) ==
    IF rows = {} THEN {<<>>}
    ELSE UNION { { <<r>> \o rest : rest \in Unordered(rows \ {r}) } : r \in rows }

\* ORDER BY date DESC: every listing of the rows with no later date after an
\* earlier one; rows of one date come in any order.
RECURSIVE OrderByDateDesc(_)
OrderByDateDesc(rows) ==
    IF rows = {} THEN {<<>>}
    ELSE UNION { { <<r>> \o rest : rest \in OrderByDateDesc(rows \ {r}) }
                 : r \in {x \in rows : \A y \in rows : ~TextLess(x.date, y.date)} }

\* TotalViews adding 1 per row in place of its view_count.
TotalViewsPerRow(pageviews) == Len(pageviews)

\* total_views += view_count, over the rows in order.
RECURSIVE TotalViews(_)
TotalViews(pageviews) ==
    IF pageviews = <<>> THEN 0
    ELSE Head(pageviews).view_count + TotalViews(Tail(pageviews))

\* The summary and the JSON body export builds from the rows it read.
ExportResult(pageviews) ==
    [ summary |->
        [ unique_pages |-> Cardinality({pageviews[i].page : i \in 1..Len(pageviews)}),
          total_views |-> TotalViews(pageviews),
          total_records |-> Len(pageviews) ],
      pageviews |-> pageviews ]

\* state.db.lock().unwrap() and the query, taken as one step. On a poisoned
\* mutex the task panics unanswered. prepare, query_map and each row are
\* unwrapped, so a failing query panics with the guard held, which poisons
\* the mutex and releases it; otherwise the JSON response is built.
Export(t) ==
    /\ handler[t].kind = "export"
    /\ handler[t].pc = "lock"
    /\ Unlocked
    /\ IF poisoned
       THEN /\ handler' = [handler EXCEPT ![t] = Done(@, "none", "none")]
            /\ UNCHANGED <<poisoned, db_mutex>>
       ELSE \E ok \in BOOLEAN :
              IF ok /\ Aggregated
              THEN /\ \E pageviews \in OrderByDateDesc(Select(tables[TableName].rows,
                                                              handler[t].params.domain)) :
                         handler' = [handler EXCEPT
                                       ![t].pc = "reply", ![t].result = "ok",
                                       ![t].response =
                                           [content_type |-> "application/json",
                                            body |-> ExportResult(pageviews)]]
                   /\ db_mutex' = t
                   /\ UNCHANGED poisoned
              ELSE /\ handler' = [handler EXCEPT ![t] = Done(@, "err", "none")]
                   /\ poisoned' = TRUE
                   /\ UNCHANGED db_mutex
    /\ UNCHANGED <<tables, requests, applied>>
    /\ MainUnchanged

\* ExportReturn with the exported rows deleted from the table (an export
\* that drains what it reports).
ExportReturnDraining(t) ==
    /\ handler[t].kind = "export"
    /\ handler[t].pc = "reply"
    /\ handler' = [handler EXCEPT ![t] = Done(@, @.result, @.response.content_type)]
    /\ db_mutex' = 0
    /\ tables' = With(tables, TableName,
                      [tables[TableName] EXCEPT !.rows =
                          @ \ {handler[t].response.body.pageviews[i] :
                                 i \in 1..Len(handler[t].response.body.pageviews)}])
    /\ UNCHANGED <<poisoned, requests, applied>>
    /\ MainUnchanged

\* export returns: the guard db is dropped and the response is sent.
ExportReturn(t) ==
    /\ handler[t].kind = "export"
    /\ handler[t].pc = "reply"
    /\ handler' = [handler EXCEPT ![t] = Done(@, @.result, @.response.content_type)]
    /\ db_mutex' = 0
    /\ UNCHANGED <<tables, poisoned, requests, applied>>
    /\ MainUnchanged

\* ------------------------------------------------------------ specification

Next ==
    \/ Open
    \/ Detect
    \/ Rename
    \/ Create
    \/ Populate
    \/ Drop
    \/ CreateIfNotExists
    \/ Bind
    \/ Restart
    \/ Tick
    \/ \E t \in Tasks : CountBegin(t)
    \/ \E t \in Tasks : CountExecute(t)
    \/ \E t \in Tasks : CountReturn(t)
    \/ \E t \in Tasks : ExportBegin(t)
    \/ \E t \in Tasks : Export(t)
    \/ \E t \in Tasks : ExportReturn(t)

Spec == Init /\ [][Next]_vars

\* Fair scheduling of the handlers: a handler that holds the lock goes on to
\* return, and a handler waiting in lock() gets the lock if it is free again
\* and again. Requests arrive, and the process is restarted, as the
\* environment pleases.
FairSpec ==
    /\ Spec
    /\ \A t \in Tasks : /\ SF_vars(CountExecute(t))
                        /\ SF_vars(Export(t))
                        /\ WF_vars(CountReturn(t))
                        /\ WF_vars(ExportReturn(t))

\* -------------------------------------------------------------- properties

\* The key a count_page_view task writes.
TaskKey(t) == <<handler[t].domain, handler[t].page, handler[t].date_str>>

\* The rows of the aggregated table with key k.
RowsFor(store, k) ==
    IF TableName \in DOMAIN store /\ ~Contains(store[TableName].sql, LegacyMarker)
    THEN {r \in store[TableName].rows : Key(r) = k}
    ELSE {}

\* The view_count the table held for key k when this process began serving.
ServedCount(k) ==
    LET hit == {r \in served : Key(r) = k}
    IN  IF hit = {} THEN 0 ELSE (CHOOSE r \in hit : TRUE).view_count

\* The YYYY-MM-DD text of the UTC day of legacy event e.
DayOf(e) == FormatDate(UtcDate(e.ts))

\* The legacy events of the same (domain, page, UTC day) as event e.
GroupOf(e) ==
    {x \in legacy : x.domain = e.domain /\ x.page = e.page /\ DayOf(x) = DayOf(e)}

\* C1. No lost updates: for every key that had no row when the process began
\* serving, once no count_page_view call for it is between its statement and
\* its return, the table holds exactly one row for the key and its view_count
\* is the number K >= 1 of calls for it that have returned with their
\* statement applied, however the calls interleaved.
C1_NoLostUpdates ==
    (main_pc = "serving" /\ Aggregated) =>
        \A k \in RequestKeys :
            ( /\ ServedCount(k) = 0
              /\ applied[k] >= 1
              /\ ~\E t \in Tasks : /\ handler[t].kind = "count"
                                   /\ handler[t].pc = "reply"
                                   /\ TaskKey(t) = k )
            => \E r \in RowsFor(tables, k) :
                  RowsFor(tables, k) = {r} /\ r.view_count = applied[k]

\* C1 witness: two calls for one key, each running while the other was, have
\* both returned, and the row they created counts 2.
C1_Witness ==
    /\ main_pc = "serving"
    /\ \A t \in Tasks : /\ handler[t].kind = "count"
                        /\ handler[t].pc = "done"
                        /\ handler[t].result = "ok"
                        /\ handler[t].overlap
    /\ \E k \in RequestKeys :
          /\ ServedCount(k) = 0
          /\ applied[k] = 2
          /\ \E r \in RowsFor(tables, k) : r.view_count = 2

\* A step in which count_page_view task t runs its statement with success.
CountApplied(t) ==
    /\ handler[t].kind = "count"
    /\ handler[t].pc = "lock"
    /\ handler'[t].pc = "reply"
    /\ handler'[t].result = "ok"

\* C2. Sequential calls: every count_page_view call whose statement succeeds
\* leaves exactly one row for its (domain, page, date); it inserts the row
\* with view_count 1 if the key had none, and otherwise adds exactly 1 to its
\* view_count. So N such calls on a key without a row leave view_count N.
C2_InsertThenIncrement ==
    [][ \A t \in Tasks :
          CountApplied(t) =>
            LET before == RowsFor(tables, TaskKey(t))
                after == RowsFor(tables', TaskKey(t))
            IN  /\ Cardinality(after) = 1
                /\ before = {} => \A r \in after : r.view_count = 1
                /\ \A b \in before : \A r \in after : r.view_count = b.view_count + 1
      ]_vars

\* C2 witness: two calls for one key, one after the other on the same task
\* while the other task stayed idle, found no row and left view_count 2.
C2_Witness ==
    /\ main_pc = "serving"
    /\ handler[1].kind = "count" /\ handler[1].pc = "done" /\ ~handler[1].overlap
    /\ handler[2].pc = "idle"
    /\ \E k \in RequestKeys :
          /\ ServedCount(k) = 0
          /\ applied[k] = 2
          /\ \E r \in RowsFor(tables, k) : r.view_count = 2

\* C3. Whenever the aggregated table exists, it holds at most one row per
\* (domain, page, date) and every row has view_count >= 1.
C3_UniqueKeyPositiveCount ==
    Aggregated =>
        /\ \A r1 \in tables[TableName].rows, r2 \in tables[TableName].rows :
              Key(r1) = Key(r2) => r1 = r2
        /\ \A r \in tables[TableName].rows : r.view_count >= 1

\* C3 witness: after a count_page_view and an export have both returned, the
\* table holds several rows, one of them counted more than once.
C3_Witness ==
    /\ main_pc = "serving"
    /\ Aggregated
    /\ \E t \in Tasks : handler[t].kind = "export" /\ handler[t].pc = "done"
                        /\ handler[t].sent = "application/json"
    /\ \E k \in RequestKeys : applied[k] >= 1
    /\ Cardinality(tables[TableName].rows) >= 2
    /\ \E r \in tables[TableName].rows : r.view_count >= 2

\* C4. Migration correctness: when main found the legacy table and its four
\* steps are done, the store holds the aggregated table alone, with exactly
\* one row per (domain, page, UTC day) group of legacy events, whose
\* view_count is the size of the group.
C4_MigrationCorrect ==
    (main_pc = "bind" /\ needs_migration) =>
        /\ DOMAIN tables = {TableName}
        /\ tables[TableName].sql = AggregatedSql
        /\ \A e \in legacy :
              \E r \in tables[TableName].rows :
                  Key(r) = <<e.domain, e.page, DayOf(e)>>
        /\ \A r \in tables[TableName].rows :
              /\ \E e \in legacy : Key(r) = <<e.domain, e.page, DayOf(e)>>
              /\ r.view_count =
                    Cardinality({e \in legacy : Key(r) = <<e.domain, e.page, DayOf(e)>>})
        /\ \A r1 \in tables[TableName].rows, r2 \in tables[TableName].rows :
              Key(r1) = Key(r2) => r1 = r2

\* C4 witness: a migration is done that put two legacy events into one row.
C4_Witness ==
    /\ main_pc = "bind"
    /\ needs_migration
    /\ Cardinality(legacy) = 2
    /\ \E r \in tables[TableName].rows : r.view_count = 2

\* C5 (as claimed). Whenever the service is serving, the aggregated table is
\* the only table and every legacy event the store held is counted in the
\* row of its (domain, page, day).
C5_NoLegacyDataLost ==
    main_pc = "serving" =>
        /\ DOMAIN tables = {TableName}
        /\ Aggregated
        /\ \A e \in legacy :
              \E r \in tables[TableName].rows :
                  /\ Key(r) = <<e.domain, e.page, DayOf(e)>>
                  /\ r.view_count >= Cardinality(GroupOf(e))

\* C6 (as claimed). No handler runs its statement while the renamed legacy
\* table exists or while the aggregated table misses legacy data.
C6_NoServingPartialStore ==
    \A t \in Tasks :
        handler[t].pc = "reply" =>
            /\ ~Exists(OldTableName)
            /\ Aggregated =>
                  \A e \in legacy :
                      \E r \in tables[TableName].rows :
                          /\ Key(r) = <<e.domain, e.page, DayOf(e)>>
                          /\ r.view_count >= Cardinality(GroupOf(e))

\* C7. Idempotence: once a start has created, found or migrated the
\* aggregated table and gone on to bind, no step of main in a later start
\* changes the set of tables or any row, finds the legacy marker, or has a
\* statement refused by SQLite (main can then panic only because the store
\* or the socket itself fails).
C7_EnsureSchemaIdempotent ==
    [][ (settled /\ main_pc \notin {"serving", "crashed"}) =>
            /\ tables' = tables
            /\ ~needs_migration'
            /\ main_pc' \notin {"rename", "create", "populate", "drop"}
            /\ panic' # "sql"
      ]_vars

\* C7 witness: a later start has run its schema step on a store whose
\* aggregated table holds rows.
C7_Witness ==
    /\ settled
    /\ main_pc = "bind"
    /\ Aggregated
    /\ tables[TableName].rows # {}

\* C8 (as claimed). Every count_page_view call that has ended has returned
\* the pixel response with content type image/gif.
C8_CountAlwaysAnswers ==
    \A t \in Tasks :
        (handler[t].kind = "count" /\ handler[t].pc = "done") =>
            handler[t].sent = "image/gif"

\* C9. A failed statement is swallowed: when the statement of a
\* count_page_view call fails, the call does not panic, the store is exactly
\* as before, and the call goes on to return the pixel response.
C9_FailureSwallowed ==
    [][ \A t \in Tasks :
          /\ ( /\ handler[t].kind = "count"
               /\ handler[t].pc = "lock"
               /\ handler'[t].result = "err" )
             => /\ tables' = tables
                /\ handler'[t].pc = "reply"
                /\ handler'[t].response = PixelResponse
          /\ ( /\ handler[t].kind = "count"
               /\ handler[t].pc = "reply"
               /\ handler[t].result = "err"
               /\ handler'[t].pc = "done" )
             => /\ tables' = tables
                /\ handler'[t].sent = "image/gif"
      ]_vars

\* C9 witness: a call whose statement failed has returned the pixel.
C9_Witness ==
    \E t \in Tasks :
        /\ handler[t].kind = "count"
        /\ handler[t].pc = "done"
        /\ handler[t].result = "err"
        /\ handler[t].sent = "image/gif"

\* What C10 says is persisted for a parameter: the sentinel when the
\* parameter is absent or empty, the parameter itself otherwise.
SentinelIfEmpty(param, sentinel) ==
    IF param = None \/ param = Some("") THEN sentinel ELSE param[1]

\* C10 (as claimed). The row a count_page_view call writes has domain
\* "unknown" when its domain parameter is absent or empty and page "/unknown"
\* when its page parameter is absent or empty; other values are stored as given.
C10_SentinelsPersisted ==
    \A t \in Tasks :
        (handler[t].kind = "count" /\ handler[t].pc = "reply" /\ handler[t].result = "ok")
        => \E r \in tables[TableName].rows :
              /\ r.domain = SentinelIfEmpty(handler[t].params.domain, "unknown")
              /\ r.page = SentinelIfEmpty(handler[t].params.page, "/unknown")
              /\ r.date = handler[t].date_str

\* An export task whose query succeeded and whose response is built.
ExportBuilt(t) ==
    /\ handler[t].kind = "export"
    /\ handler[t].pc = "reply"
    /\ handler[t].result = "ok"

\* The rows in the response of export task t, as a set.
Returned(t) ==
    LET pageviews == handler[t].response.body.pageviews
    IN  {pageviews[i] : i \in 1..Len(pageviews)}

\* C11. Export with a domain filter X returns exactly the rows of the table
\* whose domain is X, compared exactly (a domain that differs from X in case
\* only is not returned), each once; Export without a filter returns every
\* row of the table, each once.
C11_ExportFilter ==
    \A t \in Tasks :
        ExportBuilt(t) =>
            LET rows == tables[TableName].rows
                filter == handler[t].params.domain
            IN  /\ filter = None => Returned(t) = rows
                /\ filter # None =>
                      /\ \A r \in Returned(t) : r \in rows /\ r.domain = filter[1]
                      /\ \A r \in rows : r.domain = filter[1] => r \in Returned(t)
                /\ Len(handler[t].response.body.pageviews) = Cardinality(Returned(t))

\* C11 witness: an export filtered by "d1" has returned the rows of d1 and
\* left out a row of another domain.
C11_Witness ==
    \E t \in Tasks :
        /\ ExportBuilt(t)
        /\ handler[t].params.domain = Some("d1")
        /\ Returned(t) # {}
        /\ \E r \in tables[TableName].rows : r.domain # "d1"

\* The sum of view_count over the positions I of the list pageviews.
RECURSIVE SumViews(_, _)
SumViews(pageviews, I) ==
    IF I = {} THEN 0
    ELSE LET i == CHOOSE x \in I : TRUE
         IN  pageviews[i].view_count + SumViews(pageviews, I \ {i})

\* C12. In every Export result, filtered or not, unique_pages is the number
\* of distinct page values among the returned rows, total_views is the sum
\* of their view_count, and total_records is the number of returned rows,
\* which are the rows of the table that pass the filter.
C12_ExportSummary ==
    \A t \in Tasks :
        ExportBuilt(t) =>
            LET body == handler[t].response.body
                selected == {r \in tables[TableName].rows :
                                \/ handler[t].params.domain = None
                                \/ r.domain = handler[t].params.domain[1]}
            IN  /\ body.summary.unique_pages = Cardinality({r.page : r \in Returned(t)})
                /\ body.summary.total_views = SumViews(body.pageviews, DOMAIN body.pageviews)
                /\ body.summary.total_records = Len(body.pageviews)
                /\ body.summary.total_records = Cardinality(selected)

\* C12 witness: an export has returned two rows of one page, one of them
\* counted twice: 1 unique page, 3 views, 2 records.
C12_Witness ==
    \E t \in Tasks :
        /\ ExportBuilt(t)
        /\ handler[t].response.body.summary =
              [unique_pages |-> 1, total_views |-> 3, total_records |-> 2]

\* The digit a character of a date string stands for.
DigitValue(c) == CHOOSE d \in 0..9 : DigitChar[d + 1] = c

\* The day a date string YYYY-MM-DD names, as the number YYYYMMDD.
DayNumber(date) ==
    LET v(i) == DigitValue(date[i])
    IN  (v(1) * 1000 + v(2) * 100 + v(3) * 10 + v(4)) * 10000
            + (v(6) * 10 + v(7)) * 100 + v(9) * 10 + v(10)

\* C13. In every Export result the pageviews list is ordered non-increasing
\* by date: a row never comes before a row of a later day.
C13_ExportOrder ==
    \A t \in Tasks :
        ExportBuilt(t) =>
            LET pageviews == handler[t].response.body.pageviews
            IN  \A i \in 1..Len(pageviews), j \in 1..Len(pageviews) :
                    i < j => DayNumber(pageviews[i].date) >= DayNumber(pageviews[j].date)

\* C13 witness: an export has returned a row of 2025-01-01 followed by a row
\* of 2024-12-31.
C13_Witness ==
    \E t \in Tasks :
        /\ ExportBuilt(t)
        /\ LET pageviews == handler[t].response.body.pageviews
           IN  /\ Len(pageviews) >= 2
               /\ DayNumber(pageviews[1].date) = 20250101
               /\ DayNumber(pageviews[Len(pageviews)].date) = 20241231

\* The UTC days, as YYYYMMDD, of the instants the clock passes through.
UtcDayOfInstant == <<20241231, 20250101>>

\* C14. A count_page_view call writes the row of the UTC day on which it was
\* made: its date is that day's, so calls for one (domain, page) made on two
\* UTC days write two distinct rows, and a call never changes the row of
\* another day of the same (domain, page).
C14_OneRowPerDay ==
    [][ \A t \in Tasks :
          /\ ( /\ handler[t].pc # "lock"
               /\ handler'[t].pc = "lock"
               /\ handler'[t].kind = "count" )
             => DayNumber(handler'[t].date_str) = UtcDayOfInstant[now]
          /\ CountApplied(t) =>
                LET k == TaskKey(t)
                    others(store) == {r \in store[TableName].rows :
                                        r.domain = k[1] /\ r.page = k[2] /\ r.date # k[3]}
                IN  /\ others(tables') = others(tables)
                    /\ Cardinality(RowsFor(tables', k)) = 1
                    /\ RowsFor(tables', k) \cap others(tables') = {}
      ]_vars

\* C14 witness: on a store that began empty, one view of a page on
\* 2024-12-31 and one on 2025-01-01 have left two rows, each counting 1.
C14_Witness ==
    /\ main_pc = "serving"
    /\ legacy = {}
    /\ Aggregated
    /\ \E r1 \in tables[TableName].rows, r2 \in tables[TableName].rows :
          /\ r1.domain = r2.domain /\ r1.page = r2.page
          /\ DayNumber(r1.date) = 20241231 /\ DayNumber(r2.date) = 20250101
          /\ r1.view_count = 1 /\ r2.view_count = 1
          /\ applied[Key(r1)] = 1 /\ applied[Key(r2)] = 1

\* C15. Monotonicity: once the aggregated table holds a row for a key, no
\* step of a handler and no step of a later start of main deletes the row or
\* lowers its view_count.
C15_Monotone ==
    [][ Aggregated =>
          /\ TableName \in DOMAIN tables'
          /\ ~Contains(tables'[TableName].sql, LegacyMarker)
          /\ \A r \in tables[TableName].rows :
                \E q \in tables'[TableName].rows :
                    Key(q) = Key(r) /\ q.view_count >= r.view_count
      ]_vars

\* C15 witness: in a later start of main, after the requests served by an
\* earlier one, the table holds a row counted twice.
C15_Witness ==
    /\ settled
    /\ main_pc = "serving"
    /\ requests = MaxRequests
    /\ \A t \in Tasks : handler[t].pc = "idle"
    /\ Aggregated
    /\ \E r \in tables[TableName].rows : r.view_count >= 2

\* C16. Mutual exclusion: at most one handler at a time is between taking
\* the lock and returning, and it is the holder of the lock; the store is
\* written only in the step in which a count_page_view takes the free lock;
\* and the rows and the summary of an export response are those of the table
\* as it is for as long as the export holds the lock.
C16_MutualExclusion ==
    /\ [](/\ \A t \in Tasks, u \in Tasks :
                (handler[t].pc = "reply" /\ handler[u].pc = "reply") => t = u
          /\ \A t \in Tasks : handler[t].pc = "reply" <=> db_mutex = t
          /\ \A t \in Tasks :
                ExportBuilt(t) =>
                    /\ Returned(t) = {r \in tables[TableName].rows :
                                        \/ handler[t].params.domain = None
                                        \/ r.domain = handler[t].params.domain[1]}
                    /\ handler[t].response.body.summary.total_records
                          = Cardinality(Returned(t)))
    /\ [][ (main_pc = "serving" /\ main_pc' = "serving" /\ tables' # tables) =>
              /\ db_mutex = 0
              /\ db_mutex' \in Tasks
              /\ handler[db_mutex'].kind = "count"
              /\ handler[db_mutex'].pc = "lock"
         ]_vars

\* C16 witness: an export holds the lock with its response built while a
\* count_page_view waits for the lock.
C16_Witness ==
    \E t \in Tasks, u \in Tasks :
        /\ ExportBuilt(t)
        /\ db_mutex = t
        /\ Returned(t) # {}
        /\ handler[u].kind = "count"
        /\ handler[u].pc = "lock"

\* C17. Sequencing: a request handler runs only in a process whose main
\* has finished detection and every schema step and is serving, on a store
\* in which the pageviews table exists; while main opens the store, detects
\* the schema, migrates or creates the table, no handler has begun.
C17_SchemaBeforeRequests ==
    \A t \in Tasks :
        handler[t].pc # "idle" =>
            /\ main_pc = "serving"
            /\ Exists(TableName)

\* C17 witness: a handler holds the lock in a process whose main migrated
\* the legacy table before serving.
C17_Witness ==
    /\ main_pc = "serving"
    /\ needs_migration
    /\ legacy # {}
    /\ \E t \in Tasks : handler[t].pc = "reply"

\* C18. Export is read-only: no step of an export call, whether it ends by
\* returning its response or by failing, changes the set of tables, their
\* schemas or any row.
C18_ExportReadOnly ==
    [][ \A t \in Tasks :
          (handler'[t].kind = "export" /\ handler'[t] # handler[t]) => tables' = tables
      ]_vars

\* C18 witness: one export has returned rows and another has failed, and the
\* table holds rows.
C18_Witness ==
    /\ main_pc = "serving"
    /\ Aggregated
    /\ tables[TableName].rows # {}
    /\ \E t \in Tasks, u \in Tasks :
          /\ handler[t].kind = "export" /\ handler[t].pc = "done"
          /\ handler[t].sent = "application/json"
          /\ handler[u].kind = "export" /\ handler[u].pc = "done"
          /\ handler[u].result = "err"

\* C19 (as claimed). Under fair scheduling every request that waits for the
\* lock is in the end granted it (lock() returns the guard), runs to its end
\* and releases the lock, unless the process is stopped first.
C19_LockLiveness ==
    \A t \in Tasks :
        (handler[t].pc = "lock") ~>
            \/ main_pc # "serving"
            \/ /\ handler[t].pc = "done"
               /\ handler[t].result # "none"
               /\ db_mutex # t

\* C20 (as claimed). A count_page_view call creates, renames or drops no
\* table and changes at most the one row whose key is its domain ("unknown"
\* when absent or empty), its page ("/unknown" when absent or empty) and the
\* date of the call; no other row is added, removed or changed.
C20_CountFrame ==
    [][ \A t \in Tasks :
          (handler'[t].kind = "count" /\ handler'[t] # handler[t]) =>
            LET k == << SentinelIfEmpty(handler[t].params.domain, "unknown"),
                        SentinelIfEmpty(handler[t].params.page, "/unknown"),
                        handler[t].date_str >>
                rest(store, n) == {r \in store[n].rows : n # TableName \/ Key(r) # k}
            IN  /\ DOMAIN tables' = DOMAIN tables
                /\ \A n \in DOMAIN tables :
                      /\ tables'[n].sql = tables[n].sql
                      /\ handler[t].pc # "lock" => tables'[n] = tables[n]
                      /\ Aggregated => rest(tables', n) = rest(tables, n)
      ]_vars

====
